---- MODULE Spec2Model ----
(***************************************************************************)
(* Model of app/open-source/main.py: a sequential RAG script.  main()      *)
(* parses its arguments, validates them, loads the generation model, walks *)
(* the PDF directory, sorts the paths found and runs run_rag_over_pdf on   *)
(* each path in turn.                                                      *)
(*                                                                         *)
(* Python strings are tuples of character codes, so that lower(),          *)
(* endswith(), os.path.join() and the ordering used by list.sort() are     *)
(* computed character by character.                                        *)
(***************************************************************************)
EXTENDS Integers, Sequences, FiniteSets, TLC

\* The largest number of files the directory tree holds.
MaxFiles == 2

----------------------------------------------------------------------------
\* Strings

\* Python's None: a tuple that is the code sequence of no string used here.
None == <<0>>

s_default_n_ctx == <<52, 48, 57, 54>>                    \* "4096"
s_default_pdf_dir == <<46, 47, 112, 100, 102>>           \* "./pdf"
s_default_embedding == <<66, 65, 65, 73>>                \* "BAAI" (bge-small-en-v1.5)
s_dot_pdf == <<46, 112, 100, 102>>                       \* ".pdf"

s_empty == <<>>                                          \* ""
s_zero == <<48>>                                         \* "0"
s_minus_one == <<45, 49>>                                \* "-1"
s_abc == <<97, 98, 99>>                                  \* "abc"
s_question == <<113, 63>>                                \* "q?"
s_unknown_embedding == <<117, 110, 107>>                 \* "unk"
s_rel_model == <<109, 46, 103>>                          \* "m.g"
s_abs_missing_model == <<47, 120, 46, 103>>              \* "/x.g"
s_abs_model == <<47, 109, 46, 103>>                      \* "/m.g"
s_missing_dir == <<110, 111>>                            \* "no"

s_a_pdf == <<97, 46, 112, 100, 102>>                     \* "a.pdf"
s_A_PDF == <<65, 46, 80, 68, 70>>                        \* "A.PDF"
s_b_Pdf == <<98, 46, 80, 100, 102>>                      \* "b.Pdf"
s_c_pdf_txt == <<99, 46, 112, 100, 102, 46, 116, 120, 116>>  \* "c.pdf.txt"
s_d == <<100>>                                           \* "d"
s_e_pdf == <<101, 46, 112, 100, 102>>                    \* "e.pdf"

\* str.lower() on one character (ASCII).
LowerChar(c) == IF c \in 65..90 THEN c + 32 ELSE c

\* str.lower()
Lower(s) == [i \in 1..Len(s) |-> LowerChar(s[i])]

\* str.endswith(suffix)
EndsWith(s, suffix) ==
    /\ Len(s) >= Len(suffix)
    /\ SubSeq(s, Len(s) - Len(suffix) + 1, Len(s)) = suffix

\* Variant: the filter without lower().
EndsWithCaseSensitive(name) == EndsWith(name, s_dot_pdf)

\* The filter of line 157: name.lower().endswith(".pdf")
IsPdfName(name) == EndsWith(Lower(name), s_dot_pdf)

\* os.path.join(dirpath, name) for a relative name (POSIX).
Join(dirpath, name) ==
    IF Len(dirpath) > 0 /\ dirpath[Len(dirpath)] = 47
    THEN dirpath \o name
    ELSE dirpath \o <<47>> \o name

\* Python's str ordering: by code point, a proper prefix first.
RECURSIVE StrLess(_, _)
StrLess(s, t) ==
    IF Len(t) = 0 THEN FALSE
    ELSE IF Len(s) = 0 THEN TRUE
    ELSE IF s[1] # t[1] THEN s[1] < t[1]
    ELSE StrLess(Tail(s), Tail(t))

RECURSIVE Insert(_, _)
Insert(x, sorted) ==
    IF sorted = <<>> THEN <<x>>
    ELSE IF StrLess(sorted[1], x) \/ sorted[1] = x
         THEN <<sorted[1]>> \o Insert(x, Tail(sorted))
         ELSE <<x>> \o sorted

\* Variant: the list left in os.walk order.
Unsorted(paths) == paths

\* list.sort() on a list of strings (line 159).
RECURSIVE SortPaths(_)
SortPaths(paths) ==
    IF paths = <<>> THEN <<>>
    ELSE Insert(paths[1], SortPaths(Tail(paths)))

\* int(s): an optional sign and at least one digit, else ValueError.
RECURSIVE DigitsValue(_)
DigitsValue(s) ==
    IF s = <<>> THEN 0
    ELSE DigitsValue(SubSeq(s, 1, Len(s) - 1)) * 10 + (s[Len(s)] - 48)

PyInt(s) ==
    LET body == IF Len(s) > 0 /\ s[1] \in {43, 45} THEN Tail(s) ELSE s
        ok == Len(body) > 0 /\ \A i \in 1..Len(body) : body[i] \in 48..57
    IN  [ok |-> ok,
         val |-> IF ~ok THEN 0
                 ELSE IF s[1] = 45 THEN 0 - DigitsValue(body)
                 ELSE DigitsValue(body)]

\* Python truthiness of an Optional[str]: None and "" are falsy.
Falsy(v) == v = None \/ v = s_empty

\* os.getenv(name, default) / argparse's default= : the flag wins, then the default.
Resolve(flag, default) == IF flag = None THEN default ELSE flag

----------------------------------------------------------------------------
\* The file system the run sees

\* Directories under the default PDF directory; e.pdf is a directory.
Root == s_default_pdf_dir
Dirs == {Root, Join(Root, s_d), Join(Join(Root, s_d), s_e_pdf)}

SubDirs(dir) == {d \in Dirs : \E n \in {s_d, s_e_pdf} : d = Join(dir, n)}

FileNames == {s_a_pdf, s_A_PDF, s_b_Pdf, s_c_pdf_txt}

RECURSIVE SumCard(_, _)
SumCard(t, ds) ==
    IF ds = {} THEN 0
    ELSE LET d == CHOOSE x \in ds : TRUE
         IN  Cardinality(t[d]) + SumCard(t, ds \ {d})

\* A tree: the regular files of each directory.
Trees == {t \in [Dirs -> SUBSET FileNames] : SumCard(t, Dirs) <= MaxFiles}

\* The value of fs before os.walk has read the tree.
NoTree == [d \in Dirs |-> {None}]

\* os.path.isabs / os.path.exists / os.path.isdir
IsAbs(p) == Len(p) > 0 /\ p[1] = 47
Exists(p) == p \in Dirs \cup {s_abs_model}
IsDir(p) == p \in Dirs

\* Embedding identifiers HuggingFaceEmbeddings can resolve.
KnownEmbeddingModels == {s_default_embedding}

\* All orderings of a finite set: os.scandir lists a directory in any order.
RECURSIVE Perms(_)
Perms(S) ==
    IF S = {} THEN {<<>>}
    ELSE UNION {{<<x>> \o p : p \in Perms(S \ {x})} : x \in S}

\* Lines 156-158 on one directory listing: the names kept, in listing order.
SelectPdf(names) == SelectSeq(names, IsPdfName)

JoinAll(dirpath, names) == [i \in 1..Len(names) |-> Join(dirpath, names[i])]

----------------------------------------------------------------------------
VARIABLES
    pc,           \* position in main()
    args,         \* the argparse.Namespace, NoArgs before parse_args returns
    parse_error,  \* how parse_args ended: "none", "ValueError", "argparse"
    exit_status,  \* the process exit status, read when pc = "exited"
    stdout,       \* lines printed with print()
    stderr,       \* tracebacks and argparse's usage errors
    llm,          \* the LlamaCpp handle, NoLlm before build_llm
    llm_loads,    \* number of LlamaCpp constructions so far
    fs,           \* the tree os.walk reads
    walk_stack,   \* directories os.walk has still to yield
    pdf_paths,    \* the list of line 154
    idx,          \* index in pdf_paths of the for loop of line 165
    frame,        \* locals of the running run_rag_over_pdf call
    db_count,     \* number of FAISS indexes built so far
    docs          \* per document: stages passed and calls made

vars == <<pc, args, parse_error, exit_status, stdout, stderr, llm, llm_loads,
          fs, walk_stack, pdf_paths, idx, frame, db_count, docs>>

NoArgs == [model_path |-> None, pdf_dir |-> None, embedding_model |-> None,
           n_ctx |-> 0, question |-> None, verbose |-> FALSE, parsed |-> FALSE]
NoLlm == [id |-> 0, model_path |-> None, n_ctx |-> 0, verbose |-> FALSE]
NoFrame == [text_chunks |-> "unset", embeddings |-> "unset", db |-> 0,
            output |-> "unset"]
NewDoc == [stages |-> <<"Pending">>, calls |-> <<>>, db |-> 0, retriever |-> 0,
           llm |-> 0]

Line(kind, arg, exc) == [kind |-> kind, arg |-> arg, exc |-> exc]

Init ==
    /\ pc = "parse_args"
    /\ args = NoArgs
    /\ parse_error = "none"
    /\ exit_status = 0
    /\ stdout = <<>>
    /\ stderr = <<>>
    /\ llm = NoLlm
    /\ llm_loads = 0
    /\ fs = NoTree
    /\ walk_stack = <<>>
    /\ pdf_paths = <<>>
    /\ idx = 0
    /\ frame = NoFrame
    /\ db_count = 0
    /\ docs = <<>>

\* sys.exit(status), or the interpreter ending on an uncaught exception (1).
Exit(status) ==
    /\ pc' = "exited"
    /\ exit_status' = status

----------------------------------------------------------------------------
\* parse_args (lines 25-65)

FlagModelPath == {None, s_rel_model, s_abs_missing_model, s_abs_model}
EnvModelPath == {None, s_empty, s_abs_model}
FlagPdfDir == {None, s_missing_dir, s_abs_model}
FlagEmbedding == {None, s_unknown_embedding}
FlagNCtx == {None, s_zero, s_abc}
EnvNCtx == {None, s_minus_one, s_abc}
FlagQuestion == {None, s_empty, s_question}
EnvQuestion == {None, s_question}
FlagVerbose == BOOLEAN

parse_args ==
    /\ pc = "parse_args"
    /\ \E f_model \in FlagModelPath, e_model \in EnvModelPath,
          f_dir \in FlagPdfDir, f_emb \in FlagEmbedding,
          f_ctx \in FlagNCtx, e_ctx \in EnvNCtx,
          f_q \in FlagQuestion, e_q \in EnvQuestion, f_verbose \in FlagVerbose :
        LET env_ctx == PyInt(Resolve(e_ctx, s_default_n_ctx))
            flag_ctx == PyInt(Resolve(f_ctx, s_zero))
        IN  IF ~env_ctx.ok
            THEN \* line 50: int() raises while the parser is being built
                 /\ parse_error' = "ValueError"
                 /\ stderr' = Append(stderr, Line("Traceback", e_ctx, "ValueError: invalid literal for int()"))
                 /\ Exit(1)
                 /\ UNCHANGED args
            ELSE IF f_ctx # None /\ ~flag_ctx.ok
            THEN \* line 65: argparse rejects the flag's value
                 /\ parse_error' = "argparse"
                 /\ stderr' = Append(stderr, Line("usage", f_ctx, "argument --n-ctx: invalid int value"))
                 /\ Exit(2)
                 /\ UNCHANGED args
            ELSE /\ args' = [model_path |-> Resolve(f_model, e_model),
                             pdf_dir |-> Resolve(f_dir, s_default_pdf_dir),
                             embedding_model |-> Resolve(f_emb, s_default_embedding),
                             n_ctx |-> IF f_ctx # None THEN flag_ctx.val
                                       ELSE env_ctx.val,
                             question |-> Resolve(f_q, e_q),
                             verbose |-> f_verbose,
                             parsed |-> TRUE]
                 /\ pc' = "validate_inputs"
                 /\ UNCHANGED <<parse_error, stderr, exit_status>>
    /\ UNCHANGED <<stdout, llm, llm_loads, fs, walk_stack, pdf_paths, idx,
                   frame, db_count, docs>>

----------------------------------------------------------------------------
\* validate_inputs (lines 68-83)

\* Variant: validation without the question check.
ValidationErrorNoQuestion(a) ==
    IF Falsy(a.model_path) THEN "model-path required"
    ELSE IF ~IsAbs(a.model_path) THEN "model-path not absolute"
    ELSE IF ~Exists(a.model_path) THEN "model file not found"
    ELSE IF ~IsDir(a.pdf_dir) THEN "pdf directory not found"
    ELSE ""

\* Variant: validation that also refuses a context size <= 0.
ValidationErrorPositive(a) ==
    IF Falsy(a.model_path) THEN "model-path required"
    ELSE IF ~IsAbs(a.model_path) THEN "model-path not absolute"
    ELSE IF ~Exists(a.model_path) THEN "model file not found"
    ELSE IF ~IsDir(a.pdf_dir) THEN "pdf directory not found"
    ELSE IF Falsy(a.question) THEN "question required"
    ELSE IF a.n_ctx <= 0 THEN "n-ctx must be positive"
    ELSE ""

\* The first check that fails, "" when all pass.
ValidationError(a) ==
    IF Falsy(a.model_path) THEN "model-path required"
    ELSE IF ~IsAbs(a.model_path) THEN "model-path not absolute"
    ELSE IF ~Exists(a.model_path) THEN "model file not found"
    ELSE IF ~IsDir(a.pdf_dir) THEN "pdf directory not found"
    ELSE IF Falsy(a.question) THEN "question required"
    ELSE ""

validate_inputs ==
    /\ pc = "validate_inputs"
    /\ IF ValidationError(args) # ""
       THEN /\ stdout' = Append(stdout, Line("ERROR", None, ValidationError(args)))
            /\ Exit(2)
       ELSE /\ pc' = "build_llm"
            /\ UNCHANGED <<stdout, exit_status>>
    /\ UNCHANGED <<args, parse_error, stderr, llm, llm_loads, fs, walk_stack,
                   pdf_paths, idx, frame, db_count, docs>>

----------------------------------------------------------------------------
\* build_llm (lines 86-91, called at line 150).  build_prompt (line 151)
\* returns a constant template and changes no state.

build_llm ==
    /\ pc = "build_llm"
    /\ llm_loads' = llm_loads + 1
    /\ \/ /\ llm' = [id |-> llm_loads + 1, model_path |-> args.model_path,
                     n_ctx |-> args.n_ctx, verbose |-> args.verbose]
          /\ pc' = "os_walk"
          /\ UNCHANGED <<stderr, exit_status>>
       \/ \* LlamaCpp raises: nothing in main catches it
          /\ stderr' = Append(stderr, Line("Traceback", None, "build_llm"))
          /\ Exit(1)
          /\ UNCHANGED llm
    /\ UNCHANGED <<args, parse_error, stdout, fs, walk_stack, pdf_paths, idx,
                   frame, db_count, docs>>

----------------------------------------------------------------------------
\* Document discovery (lines 154-159)

\* os.walk(args.pdf_dir) is called: the tree it will read.
os_walk ==
    /\ pc = "os_walk"
    /\ \E t \in Trees : fs' = t
    /\ walk_stack' = <<args.pdf_dir>>
    /\ pdf_paths' = <<>>
    /\ pc' = "walk_dir"
    /\ UNCHANGED <<args, parse_error, exit_status, stdout, stderr, llm,
                   llm_loads, idx, frame, db_count, docs>>

\* One iteration of the loop of line 155 with the inner loop of lines 156-158:
\* os.walk yields a directory top-down, its names in listing order.
walk_dir ==
    /\ pc = "walk_dir"
    /\ walk_stack # <<>>
    /\ LET dirpath == Head(walk_stack)
       IN  \E filenames \in Perms(fs[dirpath]), dirnames \in Perms(SubDirs(dirpath)) :
             /\ pdf_paths' = pdf_paths \o JoinAll(dirpath, SelectPdf(filenames))
             /\ walk_stack' = dirnames \o Tail(walk_stack)
    /\ pc' = IF walk_stack' = <<>> THEN "sort" ELSE "walk_dir"
    /\ UNCHANGED <<args, parse_error, exit_status, stdout, stderr, llm,
                   llm_loads, fs, idx, frame, db_count, docs>>

\* pdf_paths.sort() (line 159)
sort_paths ==
    /\ pc = "sort"
    /\ pdf_paths' = SortPaths(pdf_paths)
    /\ docs' = [j \in 1..Len(pdf_paths) |-> NewDoc]
    /\ pc' = "check_empty"
    /\ UNCHANGED <<args, parse_error, exit_status, stdout, stderr, llm,
                   llm_loads, fs, walk_stack, idx, frame, db_count>>

\* Variant: no emptiness check before the loop.
check_empty_falls_through ==
    /\ pc = "check_empty"
    /\ pc' = "loop"
    /\ idx' = 1
    /\ UNCHANGED <<args, parse_error, exit_status, stdout, stderr, llm,
                   llm_loads, fs, walk_stack, pdf_paths, frame, db_count, docs>>

\* if not pdf_paths: print(...); sys.exit(0) (lines 161-163)
check_empty ==
    /\ pc = "check_empty"
    /\ IF pdf_paths = <<>>
       THEN /\ stdout' = Append(stdout, Line("No PDFs found", args.pdf_dir, ""))
            /\ Exit(0)
            /\ UNCHANGED idx
       ELSE /\ pc' = "loop"
            /\ idx' = 1
            /\ UNCHANGED <<stdout, exit_status>>
    /\ UNCHANGED <<args, parse_error, stderr, llm, llm_loads, fs, walk_stack,
                   pdf_paths, frame, db_count, docs>>

----------------------------------------------------------------------------
\* The loop of lines 165-173 and run_rag_over_pdf (lines 112-143)

Called(d, call, stages) ==
    [d EXCEPT ![idx].calls = Append(@, call), ![idx].stages = @ \o stages]

\* Variant: the loop index advanced by two.
ReturnSkipsNext ==
    /\ frame' = NoFrame
    /\ idx' = idx + 2
    /\ pc' = "loop"

\* run_rag_over_pdf returns: its locals go, the for loop takes the next path.
Return ==
    /\ frame' = NoFrame
    /\ idx' = idx + 1
    /\ pc' = "loop"

\* Variant: no except clause; the exception leaves run_rag_over_pdf and main
\* and the interpreter exits.
ExceptUncaught(call, d) ==
    /\ stderr' = Append(stderr, Line("Traceback", pdf_paths[idx], call))
    /\ docs' = Called(d, call, <<"Failed">>)
    /\ Exit(1)
    /\ UNCHANGED <<stdout, frame, idx>>

\* except Exception as exc: print(f"Failed to process ...") (lines 142-143)
Except(call, d) ==
    /\ stdout' = Append(stdout, Line("Failed to process", pdf_paths[idx], call))
    /\ docs' = Called(d, call, <<"Failed">>)
    /\ Return
    /\ UNCHANGED <<stderr, exit_status>>

\* The for loop ends and main returns: exit status 0.
main_return ==
    /\ pc = "loop"
    /\ idx > Len(pdf_paths)
    /\ Exit(0)
    /\ UNCHANGED <<args, parse_error, stdout, stderr, llm, llm_loads, fs,
                   walk_stack, pdf_paths, idx, frame, db_count, docs>>

\* Variant: the generation model constructed again for each document.
run_rag_over_pdf_reloads ==
    /\ pc = "loop"
    /\ idx <= Len(pdf_paths)
    /\ llm_loads' = llm_loads + 1
    /\ llm' = [llm EXCEPT !.id = llm_loads + 1]
    /\ stdout' = Append(stdout, Line("Processing File", pdf_paths[idx], ""))
    /\ frame' = NoFrame
    /\ docs' = [docs EXCEPT ![idx].stages = Append(@, "Extracting")]
    /\ pc' = "extract"
    /\ UNCHANGED <<args, parse_error, exit_status, stderr, fs, walk_stack,
                   pdf_paths, idx, db_count>>

\* The call of line 166 and the header of line 120.
run_rag_over_pdf ==
    /\ pc = "loop"
    /\ idx <= Len(pdf_paths)
    /\ stdout' = Append(stdout, Line("Processing File", pdf_paths[idx], ""))
    /\ frame' = NoFrame
    /\ docs' = [docs EXCEPT ![idx].stages = Append(@, "Extracting")]
    /\ pc' = "extract"
    /\ UNCHANGED <<args, parse_error, exit_status, stderr, llm, llm_loads, fs,
                   walk_stack, pdf_paths, idx, db_count>>

\* Variant: no `if not text_chunks` test.
extract_without_empty_check ==
    /\ pc = "extract"
    /\ \/ /\ \E chunks \in {"chunks", "empty"} :
               /\ frame' = [frame EXCEPT !.text_chunks = chunks]
               /\ docs' = Called(docs, "extract: " \o chunks, <<"Indexing">>)
          /\ pc' = "embed"
          /\ UNCHANGED <<stdout, stderr, exit_status, idx>>
       \/ Except("extract: raise", docs)
    /\ UNCHANGED <<args, parse_error, llm, llm_loads, fs, walk_stack,
                   pdf_paths, db_count>>

\* extract_text_chunks_from_pdf and the empty check (lines 122-125)
extract_text_chunks_from_pdf ==
    /\ pc = "extract"
    /\ \/ /\ frame' = [frame EXCEPT !.text_chunks = "chunks"]
          /\ docs' = Called(docs, "extract: chunks", <<"Indexing">>)
          /\ pc' = "embed"
          /\ UNCHANGED <<stdout, stderr, exit_status, idx>>
       \/ /\ stdout' = Append(stdout, Line("No text extracted; skipping.", None, ""))
          /\ docs' = Called(docs, "extract: empty", <<"Skipped">>)
          /\ Return
          /\ UNCHANGED <<stderr, exit_status>>
       \/ Except("extract: raise", docs)
    /\ UNCHANGED <<args, parse_error, llm, llm_loads, fs, walk_stack,
                   pdf_paths, db_count>>

\* Variant: the embedding model loaded outside the try block.
HuggingFaceEmbeddings_fatal ==
    /\ pc = "embed"
    /\ \/ /\ args.embedding_model \in KnownEmbeddingModels
          /\ frame' = [frame EXCEPT !.embeddings = "loaded"]
          /\ docs' = Called(docs, "embed: loaded", <<>>)
          /\ pc' = "index"
          /\ UNCHANGED <<stdout, stderr, exit_status, idx>>
       \/ ExceptUncaught("embed: raise", docs)
    /\ UNCHANGED <<args, parse_error, llm, llm_loads, fs, walk_stack,
                   pdf_paths, db_count>>

\* HuggingFaceEmbeddings(model_name=...) (line 126)
HuggingFaceEmbeddings ==
    /\ pc = "embed"
    /\ \/ /\ args.embedding_model \in KnownEmbeddingModels
          /\ frame' = [frame EXCEPT !.embeddings = "loaded"]
          /\ docs' = Called(docs, "embed: loaded", <<>>)
          /\ pc' = "index"
          /\ UNCHANGED <<stdout, stderr, exit_status, idx>>
       \/ Except("embed: raise", docs)
    /\ UNCHANGED <<args, parse_error, llm, llm_loads, fs, walk_stack,
                   pdf_paths, db_count>>

\* FAISS.from_texts(text_chunks, embeddings) (line 127)
FAISS_from_texts ==
    /\ pc = "index"
    /\ \/ /\ db_count' = db_count + 1
          /\ frame' = [frame EXCEPT !.db = db_count + 1]
          /\ docs' = Called([docs EXCEPT ![idx].db = db_count + 1],
                            "index: built", <<"Generating">>)
          /\ pc' = "invoke"
          /\ UNCHANGED <<stdout, stderr, exit_status, idx>>
       \/ /\ Except("index: raise", docs)
          /\ UNCHANGED db_count
    /\ UNCHANGED <<args, parse_error, llm, llm_loads, fs, walk_stack, pdf_paths>>

\* RetrievalQA.from_chain_type(llm=llm, retriever=db.as_retriever(), ...) and
\* rag.invoke(question) (lines 129-137)
rag_invoke ==
    /\ pc = "invoke"
    /\ LET d == [docs EXCEPT ![idx].llm = llm.id, ![idx].retriever = frame.db]
       IN  \/ /\ \E out \in {"dict with result", "other"} :
                    /\ frame' = [frame EXCEPT !.output = out]
                    /\ docs' = Called(d, "invoke: " \o out, <<>>)
              /\ pc' = "print"
              /\ UNCHANGED <<stdout, stderr, exit_status, idx>>
           \/ Except("invoke: raise", d)
    /\ UNCHANGED <<args, parse_error, llm, llm_loads, fs, walk_stack,
                   pdf_paths, db_count>>

\* Lines 138-141, then the function returns.
print_output ==
    /\ pc = "print"
    /\ stdout' = Append(stdout,
                        IF frame.output = "dict with result"
                        THEN Line("result", None, "")
                        ELSE Line("output", None, ""))
    /\ docs' = [docs EXCEPT ![idx].stages = Append(@, "Done")]
    /\ Return
    /\ UNCHANGED <<args, parse_error, exit_status, stderr, llm, llm_loads, fs,
                   walk_stack, pdf_paths, db_count>>

----------------------------------------------------------------------------
Next ==
    \/ parse_args
    \/ validate_inputs
    \/ build_llm
    \/ os_walk
    \/ walk_dir
    \/ sort_paths
    \/ check_empty
    \/ main_return
    \/ run_rag_over_pdf
    \/ extract_text_chunks_from_pdf
    \/ HuggingFaceEmbeddings
    \/ FAISS_from_texts
    \/ rag_invoke
    \/ print_output

Spec == Init /\ [][Next]_vars

----------------------------------------------------------------------------
\* Vocabulary of the properties

N == Len(pdf_paths)
Terminal == {"Done", "Skipped", "Failed"}
RaiseCalls == {"extract: raise", "embed: raise", "index: raise", "invoke: raise"}
OutcomeKinds == {"result", "output", "No text extracted; skipping.",
                 "Failed to process"}
InDocument == pc \in {"extract", "embed", "index", "invoke", "print"}
Last(seq) == seq[Len(seq)]
Raised(j) == docs[j].calls # <<>> /\ Last(docs[j].calls) \in RaiseCalls
FailedLines(path) ==
    {k \in 1..Len(stdout) :
        stdout[k].kind = "Failed to process" /\ stdout[k].arg = path}
HeaderLine(path) == Line("Processing File", path, "")
SkipLine == Line("No text extracted; skipping.", None, "")

\* The one line a document's own calls lead to, whatever the other documents did.
ExpectedOutcome(path, calls) ==
    IF calls = <<>> THEN Line("none", None, "")
    ELSE IF Last(calls) \in RaiseCalls
         THEN Line("Failed to process", path, Last(calls))
    ELSE IF Last(calls) = "extract: empty" THEN SkipLine
    ELSE IF Last(calls) = "invoke: dict with result" THEN Line("result", None, "")
    ELSE IF Last(calls) = "invoke: other" THEN Line("output", None, "")
    ELSE Line("none", None, "")

\* The files of the tree whose name ends in .pdf in any letter case, by full path.
PdfNames == {s_a_pdf, s_A_PDF, s_b_Pdf}
ExpectedPdfPaths ==
    {x[1] \o <<47>> \o x[2] : x \in {y \in Dirs \X PdfNames : y[2] \in fs[y[1]]}}

\* A configuration validate_inputs must refuse, value by value.
BadConfiguration ==
    \/ args.model_path \in {None, s_empty}          \* absent
    \/ args.model_path = s_rel_model                \* not absolute
    \/ args.model_path = s_abs_missing_model        \* not on disk
    \/ args.pdf_dir \in {s_missing_dir, s_abs_model}  \* no such directory
    \/ args.question \in {None, s_empty}            \* empty

----------------------------------------------------------------------------
\* C1: a failure at any stage of document i is caught inside run_rag_over_pdf
\* and printed as exactly one "Failed to process <path>: <error>" line; the
\* loop goes on to every later document; each document's outcome line is the
\* one its own calls lead to, whatever happened to the others; and the run
\* that reached the loop ends with exit status 0.
C1_FailureIsolation ==
    /\ \A j \in 1..Len(docs) :
         Raised(j) =>
           /\ j < idx
           /\ Len(stdout) >= 2 * j
           /\ stdout[2 * j] = Line("Failed to process", pdf_paths[j],
                                   Last(docs[j].calls))
           /\ Cardinality(FailedLines(pdf_paths[j])) = 1
           /\ stderr = <<>>
    /\ \A j \in 1..Len(docs) :
         j < idx =>
           /\ Len(stdout) >= 2 * j
           /\ stdout[2 * j] = ExpectedOutcome(pdf_paths[j], docs[j].calls)
    /\ (pc = "exited" /\ idx >= 1) =>
           /\ exit_status = 0
           /\ idx = N + 1
           /\ Len(stdout) = 2 * N
           /\ \A j \in 1..N : /\ stdout[2 * j - 1] = HeaderLine(pdf_paths[j])
                              /\ Last(docs[j].stages) \in Terminal

C1_Witness ==
    /\ pc = "exited"
    /\ N = 2
    /\ docs[1].calls = <<"extract: chunks", "embed: loaded", "index: raise">>
    /\ docs[2].calls = <<"extract: chunks", "embed: loaded", "index: built",
                         "invoke: dict with result">>
    /\ exit_status = 0

\* C2: once the document loop is reached, stdout is header, outcome, header,
\* outcome, ...: the k-th header names the k-th path of the sorted list, each
\* header is followed by exactly one outcome line before the next header, and
\* at exit there are exactly N headers and N outcomes.
C2_OneOutcomePerHeader ==
    idx >= 1 =>
      /\ Len(stdout) <= 2 * N
      /\ Len(stdout) = (IF InDocument THEN 2 * idx - 1 ELSE 2 * (idx - 1))
      /\ \A k \in 1..Len(stdout) :
           IF k % 2 = 1
           THEN stdout[k] = HeaderLine(pdf_paths[(k + 1) \div 2])
           ELSE stdout[k].kind \in OutcomeKinds
      /\ \A j \in 1..(N - 1) : StrLess(pdf_paths[j], pdf_paths[j + 1])
      /\ pc = "exited" => Len(stdout) = 2 * N

C2_Witness ==
    /\ pc = "exited"
    /\ N = 2
    /\ Len(stdout) = 4
    /\ stdout[2].kind = "output"
    /\ stdout[4].kind = "No text extracted; skipping."
    /\ fs[Root] = {s_a_pdf, s_A_PDF}

\* C3: a parsed configuration whose model path is absent, relative or missing,
\* whose PDF directory is no directory, or whose question is empty, ends the
\* run in validate_inputs: exit status 2, one "ERROR:" line, no generation
\* model loaded, no directory read, no document processed.
C3_ValidationFailsFast ==
    (args.parsed /\ BadConfiguration /\ pc # "validate_inputs") =>
      /\ pc = "exited"
      /\ exit_status = 2
      /\ Len(stdout) = 1
      /\ stdout[1].kind = "ERROR"
      /\ stderr = <<>>
      /\ llm_loads = 0
      /\ llm = NoLlm
      /\ fs = NoTree
      /\ pdf_paths = <<>>
      /\ docs = <<>>
      /\ idx = 0

C3_Witness ==
    /\ pc = "exited"
    /\ args.parsed
    /\ args.model_path = s_abs_model
    /\ args.pdf_dir = Root
    /\ args.question = s_empty
    /\ exit_status = 2

\* C4 as stated: a run over a tree with no PDF exits 0 with the "No PDFs
\* found" line and has loaded no model at all.
C4_Original ==
    (pc = "exited" /\ fs # NoTree /\ ExpectedPdfPaths = {}) =>
      /\ exit_status = 0
      /\ stdout = <<Line("No PDFs found", args.pdf_dir, "")>>
      /\ llm_loads = 0
      /\ docs = <<>>

\* C4 amended: the generation model is loaded exactly once, and before the
\* tree is read (a failed load ends the run with status 1, the tree unread);
\* a run that reads a tree with no PDF then exits 0 with the "No PDFs found"
\* line, without loading the embedding model or processing any document.
C4_EmptyDirectory ==
    /\ fs # NoTree => (llm_loads = 1 /\ llm.id = 1)
    /\ (pc = "exited" /\ llm_loads = 1 /\ llm = NoLlm) =>
         (exit_status = 1 /\ fs = NoTree /\ stdout = <<>>)
    /\ (pc = "exited" /\ fs # NoTree /\ ExpectedPdfPaths = {}) =>
         /\ exit_status = 0
         /\ stdout = <<Line("No PDFs found", args.pdf_dir, "")>>
         /\ stderr = <<>>
         /\ docs = <<>>
         /\ db_count = 0
         /\ frame = NoFrame

C4_Witness ==
    /\ pc = "exited"
    /\ fs # NoTree
    /\ fs[Root] = {s_c_pdf_txt}
    /\ ExpectedPdfPaths = {}
    /\ Len(stdout) = 1
    /\ stdout[1].kind = "No PDFs found"
    /\ llm_loads = 1

\* C5 as stated: a failed embedding-model load ends the whole run with a
\* non-zero status; it is not reported as a "Failed to process" line and no
\* later document is started.
C5_Original ==
    \A j \in 1..Len(docs) :
      "embed: raise" \in {docs[j].calls[k] : k \in 1..Len(docs[j].calls)} =>
        /\ pc = "exited"
        /\ exit_status # 0
        /\ FailedLines(pdf_paths[j]) = {}
        /\ idx = j

\* C5 amended: a failed embedding-model load is a per-document failure: it is
\* caught, printed as that document's one "Failed to process" line, nothing
\* goes to stderr, the loop goes on, and the run ends with status 0 after
\* every document has been processed.
C5_EmbeddingLoadFailureIsPerDocument ==
    \A j \in 1..Len(docs) :
      "embed: raise" \in {docs[j].calls[k] : k \in 1..Len(docs[j].calls)} =>
        /\ j < idx
        /\ Len(stdout) >= 2 * j
        /\ stdout[2 * j] = Line("Failed to process", pdf_paths[j], "embed: raise")
        /\ Cardinality(FailedLines(pdf_paths[j])) = 1
        /\ stderr = <<>>
        /\ docs[j].stages = <<"Pending", "Extracting", "Indexing", "Failed">>
        /\ pc \in {"loop", "extract", "embed", "index", "invoke", "print", "exited"}
        /\ pc = "exited" =>
             /\ exit_status = 0
             /\ idx = N + 1
             /\ \A k \in 1..N : Last(docs[k].stages) \in Terminal

C5_Witness ==
    /\ pc = "exited"
    /\ N = 2
    /\ args.embedding_model = s_default_embedding
    /\ docs[1].calls = <<"extract: chunks", "embed: raise">>
    /\ Last(docs[2].stages) = "Done"
    /\ exit_status = 0

\* C6: a document's stages are Pending, Extracting, Indexing, Generating,
\* Done in that order, none skipped or repeated, or end early in Failed (or in
\* Skipped after Extracting); nothing follows Done, Skipped or Failed; and the
\* documents run strictly one after the other: those before the current one
\* are finished, those after it are still Pending.
StageHistories ==
    {<<"Pending">>,
     <<"Pending", "Extracting">>,
     <<"Pending", "Extracting", "Skipped">>,
     <<"Pending", "Extracting", "Failed">>,
     <<"Pending", "Extracting", "Indexing">>,
     <<"Pending", "Extracting", "Indexing", "Failed">>,
     <<"Pending", "Extracting", "Indexing", "Generating">>,
     <<"Pending", "Extracting", "Indexing", "Generating", "Failed">>,
     <<"Pending", "Extracting", "Indexing", "Generating", "Done">>}

C6_DocumentStateMachine ==
    \A j \in 1..Len(docs) :
      /\ docs[j].stages \in StageHistories
      /\ j < idx => Last(docs[j].stages) \in Terminal
      /\ j > idx => docs[j].stages = <<"Pending">>
      /\ j = idx =>
           /\ pc = "loop" => docs[j].stages = <<"Pending">>
           /\ pc = "extract" => Last(docs[j].stages) = "Extracting"
           /\ pc \in {"embed", "index"} => Last(docs[j].stages) = "Indexing"
           /\ pc \in {"invoke", "print"} => Last(docs[j].stages) = "Generating"
           /\ pc \in {"loop", "extract", "embed", "index", "invoke", "print"}

C6_Witness ==
    /\ pc = "invoke"
    /\ N = 2
    /\ idx = 2
    /\ docs[1].stages = <<"Pending", "Extracting", "Indexing", "Generating", "Done">>
    /\ docs[2].stages = <<"Pending", "Extracting", "Indexing", "Generating">>

\* C7: a document whose extraction returns no chunks gets the "No text
\* extracted; skipping." line and nothing else: no "Failed to process" line,
\* no embedding load, no index, no use of the generation model; the loop then
\* goes on with the next document.
C7_EmptyChunksSkipped ==
    \A j \in 1..Len(docs) :
      (docs[j].calls # <<>> /\ docs[j].calls[1] = "extract: empty") =>
        /\ docs[j].calls = <<"extract: empty">>
        /\ docs[j].stages = <<"Pending", "Extracting", "Skipped">>
        /\ docs[j].db = 0
        /\ docs[j].retriever = 0
        /\ docs[j].llm = 0
        /\ j < idx
        /\ Len(stdout) >= 2 * j
        /\ stdout[2 * j] = SkipLine
        /\ FailedLines(pdf_paths[j]) = {}
        /\ stderr = <<>>
        /\ (j + 1 = idx /\ pc = "loop") => frame = NoFrame
        /\ pc = "exited" =>
             /\ exit_status = 0
             /\ idx = N + 1
             /\ \A k \in 1..N : Last(docs[k].stages) \in Terminal

C7_Witness ==
    /\ pc = "exited"
    /\ N = 2
    /\ docs[1].calls = <<"extract: empty">>
    /\ Last(docs[2].stages) = "Done"
    /\ db_count = 1

\* C8: the generation model is constructed at most once, before the tree is
\* read and so before the first document; every document's generation step
\* gets that one handle; each index is built for one document, used by that
\* document's retriever only, and gone when the document is finished.
C8_ModelLoadedOnce ==
    /\ llm_loads <= 1
    /\ (fs # NoTree \/ idx >= 1) => (llm_loads = 1 /\ llm.id = 1)
    /\ \A j \in 1..Len(docs) :
         /\ docs[j].llm \in {0, llm.id}
         /\ docs[j].retriever \in {0, docs[j].db}
         /\ (\E k \in 1..Len(docs[j].calls) :
               docs[j].calls[k] \in {"invoke: dict with result", "invoke: other",
                                     "invoke: raise"})
              => (docs[j].llm = 1 /\ docs[j].retriever = docs[j].db
                  /\ docs[j].db # 0)
         /\ docs[j].db # 0 =>
              \A k \in 1..Len(docs) :
                k # j => (docs[k].db # docs[j].db /\ docs[k].retriever # docs[j].db)
    /\ db_count = Cardinality({j \in 1..Len(docs) : docs[j].db # 0})
    /\ frame.db # 0 => (InDocument /\ frame.db = docs[idx].db)

C8_Witness ==
    /\ pc = "exited"
    /\ N = 2
    /\ docs[1].llm = 1
    /\ docs[2].llm = 1
    /\ docs[1].db = 1
    /\ docs[2].db = 2
    /\ llm_loads = 1

\* C9: after discovery the list of paths is exactly the files of the tree, at
\* any depth, whose name ends in ".pdf" in any letter case (A.PDF and b.Pdf
\* are in, c.pdf.txt is out), each once, in increasing order of the full
\* path; the headers printed follow that list.
C9_Discovery ==
    (fs # NoTree /\ pc \notin {"walk_dir", "sort"}) =>
      /\ {pdf_paths[i] : i \in 1..N} = ExpectedPdfPaths
      /\ \A i \in 1..(N - 1) : StrLess(pdf_paths[i], pdf_paths[i + 1])
      /\ LET headers == SelectSeq(stdout, LAMBDA l : l.kind = "Processing File")
         IN  /\ Len(headers) <= N
             /\ \A k \in 1..Len(headers) : headers[k].arg = pdf_paths[k]
             /\ (pc = "exited" /\ idx >= 1) => Len(headers) = N

C9_Witness ==
    /\ pc = "check_empty"
    /\ fs[Root] = {s_c_pdf_txt}
    /\ fs[Join(Join(Root, s_d), s_e_pdf)] = {s_A_PDF}
    /\ pdf_paths = <<Join(Join(Join(Root, s_d), s_e_pdf), s_A_PDF)>>

\* C10 as stated: a zero or negative context size, or an N_CTX value that is
\* no integer, ends the run with exit status 2 before the generation model is
\* loaded.
C10_Original ==
    /\ llm_loads > 0 => args.n_ctx > 0
    /\ parse_error # "none" => (pc = "exited" /\ exit_status = 2)

\* C10 amended: the context size is only required to parse as an integer.  A
\* --n-ctx value that is no integer ends the run with status 2 (argparse) and
\* an N_CTX value that is no integer with status 1 (uncaught ValueError), both
\* before validation, model load and any document; validate_inputs exits with
\* status 2 only for the model path, the PDF directory or the question; a zero
\* or negative context size passes validation and is the n_ctx the generation
\* model is loaded with.
C10_ContextSizeNotValidated ==
    /\ parse_error = "argparse" => (pc = "exited" /\ exit_status = 2)
    /\ parse_error = "ValueError" => (pc = "exited" /\ exit_status = 1)
    /\ parse_error # "none" =>
         /\ ~args.parsed
         /\ stdout = <<>>
         /\ Len(stderr) = 1
         /\ llm_loads = 0
         /\ fs = NoTree
         /\ docs = <<>>
    /\ (args.parsed /\ pc = "exited" /\ exit_status = 2) => BadConfiguration
    /\ (args.parsed /\ ~BadConfiguration /\ pc \notin {"validate_inputs", "build_llm"}) =>
         /\ llm_loads = 1
         /\ llm # NoLlm => llm.n_ctx = args.n_ctx

C10_Witness ==
    /\ pc = "exited"
    /\ exit_status = 0
    /\ llm.id = 1
    /\ llm.n_ctx = 0 - 1
    /\ N = 1
    /\ Last(docs[1].stages) = "Done"

====
